---- MODULE Spec2Model ----
(***************************************************************************)
(* Model of find_subnet_v21.py: VLSM allocation of subnets of an IPv4      *)
(* network to a list of host requirements (class IPV4_SUBNET and the       *)
(* module-level helpers it calls).                                         *)
(*                                                                         *)
(* Representation choices:                                                 *)
(*  - an IPv4Address object is its integer value; a dotted string is the   *)
(*    sequence of its four decimal octets, so str() and the parsing done   *)
(*    by ipaddress.IPv4Network are real conversions (ToDotted/FromDotted); *)
(*  - list indices are the 0-based Python indices (ROOT = -1 is the parent *)
(*    of the top nodes), element i of a list is seq[i + 1];                *)
(*  - Python None is the record/number named where it is used.             *)
(***************************************************************************)
EXTENDS Integers, Sequences, FiniteSets, TLC

VARIABLES pc, ip, hosts_required, hosts, hosts_sorted, corresponding_host_bits,
          validated, ip_addr, subnet_mask_len, subnets, matched_subnets, result,
          host_number, matched_data

vars == <<pc, ip, hosts_required, hosts, hosts_sorted, corresponding_host_bits,
          validated, ip_addr, subnet_mask_len, subnets, matched_subnets, result,
          host_number, matched_data>>

(***************************************************************************)
(* Program constants                                                       *)
(***************************************************************************)
ROOT == -1

\* the marker stored in matched_subnets when no subnet was found (None)
NONE == -2

(***************************************************************************)
(* Bounds of the model                                                     *)
(***************************************************************************)
\* longest requirement list the caller supplies
MaxReqs == 4

\* requirements 0..MaxSmallReq are sized one by one in SpecSizing
MaxSmallReq == 70

\* most dot-separated components of an address text in SpecValidate
MaxOctets == 5

(***************************************************************************)
(* Arithmetic helpers                                                      *)
(***************************************************************************)
\* 2**k - 2 for 1 <= k <= 31, written so that no intermediate exceeds 2^31 - 1
Pow2Minus2(k) == 2 * (2^(k - 1) - 1)

\* int(math.sqrt(s)) for 0 <= s
RECURSIVE ISqrtFrom(_, _)
ISqrtFrom(s, r) == IF (r + 1) * (r + 1) > s THEN r ELSE ISqrtFrom(s, r + 1)

\* sum(hosts) saturated at SumCap: _pre_handle_ip only compares
\* int(sqrt(sum)) + 2 with a value below 32, so every sum >= 30^2 acts alike
SumCap == 1024

RECURSIVE SumHosts(_, _)
SumHosts(hs, i) ==
    IF i > Len(hs) THEN 0
    ELSE LET rest == SumHosts(hs, i + 1)
         IN IF hs[i] >= SumCap - rest THEN SumCap ELSE hs[i] + rest

(***************************************************************************)
(* sorted(hosts_required, reverse = True): stable insertion into a         *)
(* descending list                                                         *)
(***************************************************************************)
RECURSIVE InsertDesc(_, _)
InsertDesc(sortedSeq, x) ==
    IF sortedSeq = <<>> THEN <<x>>
    ELSE IF Head(sortedSeq) >= x THEN <<Head(sortedSeq)>> \o InsertDesc(Tail(sortedSeq), x)
    ELSE <<x>> \o sortedSeq

RECURSIVE SortedReverse(_)
SortedReverse(s) ==
    IF s = <<>> THEN <<>>
    ELSE InsertDesc(SortedReverse(SubSeq(s, 1, Len(s) - 1)), s[Len(s)])

(***************************************************************************)
(* _get_max_host                                                           *)
(***************************************************************************)
NoMatchedData == [found |-> FALSE, max_hosts |-> 0, host_bits |-> 0]

\* the loop "for host_bit in range(1,31)" from host_bit on
RECURSIVE GetMaxHostFrom(_, _)
GetMaxHostFrom(n, host_bit) ==
    IF host_bit > 30 THEN NoMatchedData
    ELSE LET max_hosts_left  == Pow2Minus2(host_bit)
             max_hosts_right == Pow2Minus2(host_bit + 1)
         IN IF max_hosts_left = n
            THEN [found |-> TRUE, max_hosts |-> max_hosts_left, host_bits |-> host_bit]
            ELSE IF max_hosts_left < n /\ max_hosts_right > n
            THEN [found |-> TRUE, max_hosts |-> max_hosts_right, host_bits |-> host_bit + 1]
            ELSE GetMaxHostFrom(n, host_bit + 1)

\* a variant that never proposes the right-hand width of the last iteration
GetMaxHostShortRange(n) ==
    LET r == GetMaxHostFrom(n, 1)
    IN IF r.found /\ r.host_bits > 30 THEN NoMatchedData ELSE r

GetMaxHost(n) == GetMaxHostFrom(n, 1)

(***************************************************************************)
(* _validate_ip                                                            *)
(* An address text is [isstr, slash, bytes, masklen]: whether the value is *)
(* a str, whether it holds a "/", the stripped dot-separated components of *)
(* the part before the first "/" and the stripped part after it.  A        *)
(* component is [num, val]: whether int() accepts it, and its value.       *)
(***************************************************************************)
Num(v) == [num |-> TRUE, val |-> v]
NaN == [num |-> FALSE, val |-> 0]

InvalidIp == [raised |-> FALSE, isvalid |-> FALSE, ipstr |-> <<>>, masklen |-> 0]
RaisedIp  == [raised |-> TRUE,  isvalid |-> FALSE, ipstr |-> <<>>, masklen |-> 0]

\* the loop over ip_bytes: "ok", "invalid" (return False) or "raise" (int() fails)
RECURSIVE CheckBytes(_, _)
CheckBytes(ip_bytes, i) ==
    IF i > Len(ip_bytes) THEN "ok"
    ELSE IF ~ip_bytes[i].num THEN "raise"
    ELSE IF ip_bytes[i].val < 0 \/ ip_bytes[i].val > 255 THEN "invalid"
    ELSE CheckBytes(ip_bytes, i + 1)

ValidateIp(text) ==
    IF ~text.isstr THEN InvalidIp
    ELSE IF ~text.slash THEN InvalidIp
    ELSE IF Len(text.bytes) # 4 THEN InvalidIp
    ELSE LET b == CheckBytes(text.bytes, 1)
         IN IF b = "raise" THEN RaisedIp
            ELSE IF b = "invalid" THEN InvalidIp
            ELSE IF ~text.masklen.num THEN RaisedIp
            ELSE IF text.masklen.val <= 0 \/ text.masklen.val >= 32 THEN InvalidIp
            ELSE [raised |-> FALSE, isvalid |-> TRUE,
                  ipstr |-> [i \in 1..4 |-> text.bytes[i].val],
                  masklen |-> text.masklen.val]

(***************************************************************************)
(* _pre_handle_ip                                                          *)
(***************************************************************************)
PreHandleIp(masklen, hs) ==
    LET host_bits == ISqrtFrom(SumHosts(hs, 1), 0) + 2
    IN IF host_bits < 32 - masklen THEN 32 - host_bits ELSE masklen

(***************************************************************************)
(* The ipaddress objects the program uses                                  *)
(***************************************************************************)
\* str(IPv4Address)
ToDotted(a) == <<a \div 16777216, (a \div 65536) % 256, (a \div 256) % 256, a % 256>>

\* IPv4Address(dotted string) as an integer
FromDotted(d) == ((d[1] * 256 + d[2]) * 256 + d[3]) * 256 + d[4]

\* ipaddress.IPv4Network(f'{ip}/{masklen}', strict=False): host bits are masked off
IPv4Network(dotted, masklen) ==
    LET a == FromDotted(dotted)
    IN [network_address |-> a - (a % 2^(32 - masklen)), prefixlen |-> masklen]

\* network.subnets(): the two halves, lower first
Subnets(network) ==
    LET p == network.prefixlen + 1
    IN << [network_address |-> network.network_address, prefixlen |-> p],
          [network_address |-> network.network_address + 2^(32 - p), prefixlen |-> p] >>

BroadcastAddress(subnet) == subnet.network_address + 2^(32 - subnet.prefixlen) - 1

\* list(subnet.hosts()), kept as its first element, last element and length:
\* every address but the network and the broadcast address; for a /31 both
\* addresses of the network, for a /32 its only address
Hosts(subnet) ==
    IF subnet.prefixlen = 31
    THEN [first |-> subnet.network_address, last |-> BroadcastAddress(subnet), len |-> 2]
    ELSE IF subnet.prefixlen = 32
    THEN [first |-> subnet.network_address, last |-> subnet.network_address, len |-> 1]
    ELSE [first |-> subnet.network_address + 1, last |-> BroadcastAddress(subnet) - 1,
          len |-> 2^(32 - subnet.prefixlen) - 2]

\* str(subnet.netmask), octet by octet
Netmask(subnet) ==
    [i \in 1..4 |->
        LET ones == subnet.prefixlen - 8 * (i - 1)
        IN IF ones >= 8 THEN 255 ELSE IF ones <= 0 THEN 0 ELSE 256 - 2^(8 - ones)]

(***************************************************************************)
(* _subnet_details, _calculate_subnets, _get_subnet                        *)
(***************************************************************************)
\* the fields _get_subnet reads; the *_bin renderings are dropped there
SubnetDetails(subnet) ==
    LET h == Hosts(subnet)
    IN [subnet_id      |-> subnet.network_address,
        usable_hosts   |-> h.len,
        subnetmask     |-> Netmask(subnet),
        broadcast_addr |-> BroadcastAddress(subnet),
        first_host     |-> h.first,
        last_host      |-> h.last]

CalculateSubnets(dotted, subnet_mask_length) == Subnets(IPv4Network(dotted, subnet_mask_length))

\* a variant whose guard lets a /31 be split once more
GetSubnetDeeper(dotted, masklen) ==
    IF masklen > 31 THEN <<>>
    ELSE LET subs == CalculateSubnets(dotted, masklen)
         IN [i \in 1..Len(subs) |->
               LET details == SubnetDetails(subs[i])
               IN [taken           |-> FALSE,
                   subnet_id       |-> ToDotted(details.subnet_id),
                   subnet_mask_len |-> masklen + 1,
                   subnet_mask     |-> details.subnetmask,
                   usable_hosts    |-> details.usable_hosts,
                   first_host      |-> ToDotted(details.first_host),
                   last_host       |-> ToDotted(details.last_host),
                   broadcast_addr  |-> ToDotted(details.broadcast_addr)]]

GetSubnet(dotted, masklen) ==
    IF masklen > 30 THEN <<>>
    ELSE LET subs == CalculateSubnets(dotted, masklen)
         IN [i \in 1..Len(subs) |->
               LET details == SubnetDetails(subs[i])
               IN [taken           |-> FALSE,
                   subnet_id       |-> ToDotted(details.subnet_id),
                   subnet_mask_len |-> masklen + 1,
                   subnet_mask     |-> details.subnetmask,
                   usable_hosts    |-> details.usable_hosts,
                   first_host      |-> ToDotted(details.first_host),
                   last_host       |-> ToDotted(details.last_host),
                   broadcast_addr  |-> ToDotted(details.broadcast_addr)]]

(***************************************************************************)
(* IPV4_SUBNET._solve_subnet: the nodes of the subdivision tree, appended  *)
(* in the order of the recursion                                           *)
(***************************************************************************)
RECURSIVE SolveSubnet(_, _, _, _)
RECURSIVE SolveChildren(_, _, _, _, _)

\* the loop "for child in child_subnets" from the i-th child on
SolveChildren(nodes, child_subnets, i, masklen, parent) ==
    IF i > Len(child_subnets) THEN nodes
    ELSE LET child    == child_subnets[i]
             idx      == Len(nodes)
             appended == Append(nodes, [parent |-> parent, info |-> child,
                                        children |-> <<>>, taken |-> FALSE])
             deeper   == IF masklen <= 31
                         THEN SolveSubnet(appended, child.subnet_id, child.subnet_mask_len, idx)
                         ELSE appended
         IN SolveChildren(deeper, child_subnets, i + 1, masklen, parent)

SolveSubnet(nodes, dotted, masklen, parent) ==
    SolveChildren(nodes, GetSubnet(dotted, masklen), 1, masklen, parent)

(***************************************************************************)
(* IPV4_SUBNET._find_children                                              *)
(***************************************************************************)
\* the inner loop for one outer_idx: the indices whose parent is outer_idx, ascending
RECURSIVE ChildrenOf(_, _, _)
ChildrenOf(nodes, outer_idx, inner_idx) ==
    IF inner_idx >= Len(nodes) THEN <<>>
    ELSE IF outer_idx # inner_idx /\ nodes[inner_idx + 1].parent = outer_idx
    THEN <<inner_idx>> \o ChildrenOf(nodes, outer_idx, inner_idx + 1)
    ELSE ChildrenOf(nodes, outer_idx, inner_idx + 1)

FindChildren(nodes) ==
    [k \in 1..Len(nodes) |->
        [nodes[k] EXCEPT !.children = nodes[k].children \o ChildrenOf(nodes, k - 1, 0)]]

(***************************************************************************)
(* IPV4_SUBNET._set_subnet_status_taken                                    *)
(***************************************************************************)
RECURSIVE SetSubnetStatusTaken(_, _)
RECURSIVE SetChildrenTaken(_, _, _)

\* the loop "for net2 in children" from the i-th child on
SetChildrenTaken(nodes, children, i) ==
    IF i > Len(children) THEN nodes
    ELSE SetChildrenTaken(SetSubnetStatusTaken(nodes, children[i]), children, i + 1)

\* a variant that marks the node but does not descend to its children
SetSubnetStatusTakenShallow(nodes, netidx) ==
    [nodes EXCEPT ![netidx + 1].taken = TRUE]

SetSubnetStatusTaken(nodes, netidx) ==
    LET marked == [nodes EXCEPT ![netidx + 1].taken = TRUE]
    IN IF Len(marked[netidx + 1].children) > 0
       THEN SetChildrenTaken(marked, marked[netidx + 1].children, 1)
       ELSE marked

(***************************************************************************)
(* IPV4_SUBNET._match_subnets: one iteration of the loop over              *)
(* zip(self.hosts, self.corresponding_host_bits)                           *)
(***************************************************************************)
\* the scan "for idx, subnet in enumerate(self.subnets)": index of the first
\* node that is not taken and has exactly hosts_to_match usable hosts
RECURSIVE ScanSubnets(_, _, _)
ScanSubnets(nodes, hosts_to_match, idx) ==
    IF idx >= Len(nodes) THEN NONE
    ELSE IF ~nodes[idx + 1].taken /\ nodes[idx + 1].info.usable_hosts = hosts_to_match
    THEN idx
    ELSE ScanSubnets(nodes, hosts_to_match, idx + 1)

\* a variant whose range of widths includes its upper end
RECURSIVE ScanWidthsInclusive(_, _, _)
ScanWidthsInclusive(nodes, host_bits, stop) ==
    IF host_bits > stop THEN NONE
    ELSE LET idx == ScanSubnets(nodes, 2^host_bits - 2, 0)
         IN IF idx # NONE THEN idx ELSE ScanWidthsInclusive(nodes, host_bits + 1, stop)

\* the loop "for host_bits in range(max_host_bits, 32 - self.subnet_mask_len)"
RECURSIVE ScanWidths(_, _, _)
ScanWidths(nodes, host_bits, stop) ==
    IF host_bits >= stop THEN NONE
    ELSE LET idx == ScanSubnets(nodes, 2^host_bits - 2, 0)
         IN IF idx # NONE THEN idx ELSE ScanWidths(nodes, host_bits + 1, stop)

\* length of zip(hosts, corresponding_host_bits)
ZipLen(hs, bits) == IF Len(hs) <= Len(bits) THEN Len(hs) ELSE Len(bits)

\* one iteration: the node list and the result list after the i-th pair
MatchOne(nodes, matched, hs, bits, masklen, i) ==
    LET idx == ScanWidths(nodes, bits[i], 32 - masklen)
    IN IF idx # NONE
       THEN [subnets |-> SetSubnetStatusTaken(nodes, idx),
             matched_subnets |-> Append(matched, [hosts |-> hs[i], match |-> idx])]
       ELSE [subnets |-> nodes,
             matched_subnets |-> Append(matched, [hosts |-> hs[i], match |-> NONE])]

(***************************************************************************)
(* IPV4_SUBNET.get_result: 'Result', with "NO MATCH" for an unmatched row  *)
(***************************************************************************)
NoMatchInfo == [subnet_id |-> <<>>, subnet_mask_len |-> 0, subnet_mask |-> <<>>,
                usable_hosts |-> 0, first_host |-> <<>>, last_host |-> <<>>,
                broadcast_addr |-> <<>>]

InfoWithoutTaken(info) ==
    [subnet_id |-> info.subnet_id, subnet_mask_len |-> info.subnet_mask_len,
     subnet_mask |-> info.subnet_mask, usable_hosts |-> info.usable_hosts,
     first_host |-> info.first_host, last_host |-> info.last_host,
     broadcast_addr |-> info.broadcast_addr]

GetResult(matched, nodes) ==
    [i \in 1..Len(matched) |->
        IF matched[i].match = NONE
        THEN [required |-> matched[i].hosts, nomatch |-> TRUE, subnet |-> NoMatchInfo]
        ELSE [required |-> matched[i].hosts, nomatch |-> FALSE,
              subnet |-> InfoWithoutTaken(nodes[matched[i].match + 1].info)]]

(***************************************************************************)
(* Inputs                                                                  *)
(***************************************************************************)
\* the smallest requirement _get_max_host cannot size: 2**31 - 2
Unsizable == Pow2Minus2(31)

Text(b1, b2, b3, b4, m) ==
    [isstr |-> TRUE, slash |-> TRUE, bytes |-> <<b1, b2, b3, b4>>, masklen |-> m]

\* base networks of a run: 10.0.0.0/28, /29, /30, /31, the unaligned
\* 10.0.0.200/27, and two texts the validation does not accept: 10.0.0.0/32
\* and 10.0.x.0/28
BaseTexts ==
    { Text(Num(10), Num(0), Num(0), Num(0), Num(28)),
      Text(Num(10), Num(0), Num(0), Num(0), Num(29)),
      Text(Num(10), Num(0), Num(0), Num(0), Num(30)),
      Text(Num(10), Num(0), Num(0), Num(0), Num(31)),
      Text(Num(10), Num(0), Num(0), Num(200), Num(27)),
      Text(Num(10), Num(0), Num(0), Num(0), Num(32)),
      Text(Num(10), Num(0), NaN, Num(0), Num(28)) }

ReqValues == {0, 2, 3, 6, Unsizable}

ReqLists == UNION { [1..n -> ReqValues] : n \in 1..MaxReqs }

(***************************************************************************)
(* IPV4_SUBNET.__init__ followed by get_result, one action per stage       *)
(***************************************************************************)
Init ==
    /\ pc = "start"
    /\ ip \in BaseTexts
    /\ hosts_required \in ReqLists
    /\ hosts = <<>>
    /\ hosts_sorted = <<>>
    /\ corresponding_host_bits = <<>>
    /\ validated = InvalidIp
    /\ ip_addr = <<>>
    /\ subnet_mask_len = 0
    /\ subnets = <<>>
    /\ matched_subnets = <<>>
    /\ result = <<>>
    /\ host_number = 0
    /\ matched_data = NoMatchedData

\* the loop "for num in self.hosts": the matched_data of the sizable requirements
RECURSIVE SizedData(_, _)
SizedData(hs, i) ==
    IF i > Len(hs) THEN <<>>
    ELSE LET md == GetMaxHost(hs[i])
         IN IF md.found THEN <<md>> \o SizedData(hs, i + 1) ELSE SizedData(hs, i + 1)

\* lines 135-143
SizeRequirements ==
    /\ pc = "start"
    /\ LET sortedHosts == SortedReverse(hosts_required)
           sized       == SizedData(sortedHosts, 1)
       IN /\ hosts' = sortedHosts
          /\ hosts_sorted' = [i \in 1..Len(sized) |-> sized[i].max_hosts]
          /\ corresponding_host_bits' = [i \in 1..Len(sized) |-> sized[i].host_bits]
    /\ subnets' = <<>>
    /\ pc' = "validate"
    /\ UNCHANGED <<ip, hosts_required, validated, ip_addr, subnet_mask_len,
                   matched_subnets, result, host_number, matched_data>>

\* lines 145-150 for an address text that is accepted
ValidateAccepted ==
    /\ pc = "validate"
    /\ LET v == ValidateIp(ip)
       IN /\ v.isvalid
          /\ validated' = v
          /\ ip_addr' = v.ipstr
          /\ subnet_mask_len' = PreHandleIp(v.masklen, hosts)
    /\ pc' = "solve"
    /\ UNCHANGED <<ip, hosts_required, hosts, hosts_sorted, corresponding_host_bits,
                   subnets, matched_subnets, result, host_number, matched_data>>

\* lines 145-146 otherwise: int() raises ValueError inside _validate_ip, or
\* _pre_handle_ip raises TypeError on "32 - None"; the constructor is left
ValidateRaises ==
    /\ pc = "validate"
    /\ LET v == ValidateIp(ip)
       IN /\ ~v.isvalid
          /\ validated' = v
    /\ pc' = "raised"
    /\ UNCHANGED <<ip, hosts_required, hosts, hosts_sorted, corresponding_host_bits,
                   ip_addr, subnet_mask_len, subnets, matched_subnets, result,
                   host_number, matched_data>>

\* line 153
Solve ==
    /\ pc = "solve"
    /\ subnets' = SolveSubnet(subnets, ip_addr, subnet_mask_len, ROOT)
    /\ pc' = "link"
    /\ UNCHANGED <<ip, hosts_required, hosts, hosts_sorted, corresponding_host_bits,
                   validated, ip_addr, subnet_mask_len, matched_subnets, result,
                   host_number, matched_data>>

\* line 154
Link ==
    /\ pc = "link"
    /\ subnets' = FindChildren(subnets)
    /\ pc' = "match"
    /\ UNCHANGED <<ip, hosts_required, hosts, hosts_sorted, corresponding_host_bits,
                   validated, ip_addr, subnet_mask_len, matched_subnets, result,
                   host_number, matched_data>>

\* the pair of zip(hosts, corresponding_host_bits) the loop of line 344 is at
NextPair == Len(matched_subnets) + 1

\* lines 344-361, an iteration that finds a subnet
MatchFound ==
    /\ pc = "match"
    /\ NextPair <= ZipLen(hosts, corresponding_host_bits)
    /\ LET r == MatchOne(subnets, matched_subnets, hosts, corresponding_host_bits,
                         subnet_mask_len, NextPair)
       IN /\ r.matched_subnets[NextPair].match # NONE
          /\ subnets' = r.subnets
          /\ matched_subnets' = r.matched_subnets
    /\ UNCHANGED <<pc, ip, hosts_required, hosts, hosts_sorted, corresponding_host_bits,
                   validated, ip_addr, subnet_mask_len, result, host_number, matched_data>>

\* lines 344-361, an iteration that finds none
MatchNone ==
    /\ pc = "match"
    /\ NextPair <= ZipLen(hosts, corresponding_host_bits)
    /\ LET r == MatchOne(subnets, matched_subnets, hosts, corresponding_host_bits,
                         subnet_mask_len, NextPair)
       IN /\ r.matched_subnets[NextPair].match = NONE
          /\ subnets' = r.subnets
          /\ matched_subnets' = r.matched_subnets
    /\ UNCHANGED <<pc, ip, hosts_required, hosts, hosts_sorted, corresponding_host_bits,
                   validated, ip_addr, subnet_mask_len, result, host_number, matched_data>>

\* the loop of line 344 is exhausted
MatchEnd ==
    /\ pc = "match"
    /\ NextPair > ZipLen(hosts, corresponding_host_bits)
    /\ pc' = "matched"
    /\ UNCHANGED <<ip, hosts_required, hosts, hosts_sorted, corresponding_host_bits,
                   validated, ip_addr, subnet_mask_len, subnets, matched_subnets, result,
                   host_number, matched_data>>

\* lines 230-243
Return ==
    /\ pc = "matched"
    /\ result' = GetResult(matched_subnets, subnets)
    /\ pc' = "done"
    /\ UNCHANGED <<ip, hosts_required, hosts, hosts_sorted, corresponding_host_bits,
                   validated, ip_addr, subnet_mask_len, subnets, matched_subnets,
                   host_number, matched_data>>

Next ==
    \/ SizeRequirements
    \/ ValidateAccepted
    \/ ValidateRaises
    \/ Solve
    \/ Link
    \/ MatchFound
    \/ MatchNone
    \/ MatchEnd
    \/ Return

Spec == Init /\ [][Next]_vars

(***************************************************************************)
(* _get_max_host on its own: one call per requirement value                *)
(***************************************************************************)
\* 0..MaxSmallReq and the values around 2**30 - 2 and 2**31 - 2
SizeInputs ==
    (0..MaxSmallReq) \cup { Pow2Minus2(30) - 1, Pow2Minus2(30), Pow2Minus2(30) + 1,
                            Pow2Minus2(30) + 2, Pow2Minus2(31) - 1, Pow2Minus2(31),
                            Pow2Minus2(31) + 1 }

InitSizing ==
    /\ pc = "size_call"
    /\ host_number \in SizeInputs
    /\ matched_data = NoMatchedData
    /\ ip = Text(Num(0), Num(0), Num(0), Num(0), Num(0))
    /\ hosts_required = <<>>
    /\ hosts = <<>>
    /\ hosts_sorted = <<>>
    /\ corresponding_host_bits = <<>>
    /\ validated = InvalidIp
    /\ ip_addr = <<>>
    /\ subnet_mask_len = 0
    /\ subnets = <<>>
    /\ matched_subnets = <<>>
    /\ result = <<>>

SizeCall ==
    /\ pc = "size_call"
    /\ matched_data' = GetMaxHost(host_number)
    /\ pc' = "size_return"
    /\ UNCHANGED <<ip, hosts_required, hosts, hosts_sorted, corresponding_host_bits,
                   validated, ip_addr, subnet_mask_len, subnets, matched_subnets, result,
                   host_number>>

NextSizing == SizeCall

SpecSizing == InitSizing /\ [][NextSizing]_vars

(***************************************************************************)
(* _validate_ip on its own: one call per address text                      *)
(***************************************************************************)
OctetTokens == { Num(-1), Num(0), Num(255), Num(256), NaN }

PrefixTokens == { Num(0), Num(1), Num(31), Num(32), NaN }

AddressTexts ==
    { [isstr |-> s, slash |-> sl, bytes |-> b, masklen |-> m] :
        s \in BOOLEAN, sl \in BOOLEAN,
        b \in UNION { [1..n -> OctetTokens] : n \in 3..MaxOctets },
        m \in PrefixTokens }

InitValidate ==
    /\ pc = "validate_call"
    /\ ip \in AddressTexts
    /\ validated = InvalidIp
    /\ hosts_required = <<>>
    /\ hosts = <<>>
    /\ hosts_sorted = <<>>
    /\ corresponding_host_bits = <<>>
    /\ ip_addr = <<>>
    /\ subnet_mask_len = 0
    /\ subnets = <<>>
    /\ matched_subnets = <<>>
    /\ result = <<>>
    /\ host_number = 0
    /\ matched_data = NoMatchedData

ValidateCall ==
    /\ pc = "validate_call"
    /\ validated' = ValidateIp(ip)
    /\ pc' = "validate_return"
    /\ UNCHANGED <<ip, hosts_required, hosts, hosts_sorted, corresponding_host_bits,
                   ip_addr, subnet_mask_len, subnets, matched_subnets, result,
                   host_number, matched_data>>

NextValidate == ValidateCall

SpecValidate == InitValidate /\ [][NextValidate]_vars

(***************************************************************************)
(* Properties                                                              *)
(***************************************************************************)

\* C7 as stated: for n >= 0, _get_max_host(n) returns the smallest host_bits in
\* [1,30] with 2^host_bits - 2 >= n and max_hosts = 2^host_bits - 2, and returns
\* no result exactly when no host_bits in [1,30] satisfies the bound
C7_SmallestWidthUpTo30 ==
    pc = "size_return" =>
        LET fits == { k \in 1..30 : Pow2Minus2(k) >= host_number }
        IN /\ matched_data.found <=> fits # {}
           /\ matched_data.found =>
                 /\ matched_data.host_bits \in fits
                 /\ \A k \in fits : matched_data.host_bits <= k
                 /\ matched_data.max_hosts = Pow2Minus2(matched_data.host_bits)

\* C7 amended: for 0 <= n <= 2^31 - 3, _get_max_host(n) returns the smallest
\* host_bits in [1,31] with 2^host_bits - 2 >= n and max_hosts = 2^host_bits - 2
\* (so max_hosts >= n); it returns no result exactly when n >= 2^31 - 2
C7_SmallestWidthUpTo31 ==
    pc = "size_return" =>
        LET fits == { k \in 1..31 : Pow2Minus2(k) >= host_number }
        IN /\ matched_data.found <=> host_number < Pow2Minus2(31)
           /\ matched_data.found =>
                 /\ matched_data.host_bits \in fits
                 /\ \A k \in fits : matched_data.host_bits <= k
                 /\ matched_data.max_hosts = Pow2Minus2(matched_data.host_bits)
                 /\ matched_data.max_hosts >= host_number

\* a requirement above 2^30 - 2 has been sized with 31 host bits
C7_Witness ==
    /\ pc = "size_return"
    /\ host_number > Pow2Minus2(30)
    /\ matched_data.found
    /\ matched_data.host_bits = 31

\* what C8 requires of an address text for valid=true
WellFormed(text) ==
    /\ text.slash
    /\ Len(text.bytes) = 4
    /\ \A i \in 1..Len(text.bytes) :
          text.bytes[i].num /\ text.bytes[i].val >= 0 /\ text.bytes[i].val <= 255
    /\ text.masklen.num
    /\ text.masklen.val > 0
    /\ text.masklen.val < 32

\* C8 as stated: _validate_ip never raises; every text with a wrong octet count,
\* a non-numeric octet or prefix, an octet outside [0,255], a prefix <= 0 or
\* >= 32, or no "/" yields valid=false; valid=true comes with the normalized
\* address and prefix only when all four octets and the prefix are in range
C8_ValidateNeverRaises ==
    (pc = "validate_return" /\ ip.isstr) =>
        /\ ~validated.raised
        /\ ~WellFormed(ip) => ~validated.isvalid
        /\ validated.isvalid =>
              /\ WellFormed(ip)
              /\ validated.ipstr = [i \in 1..4 |-> ip.bytes[i].val]
              /\ validated.masklen = ip.masklen.val

(***************************************************************************)
(* Notions the properties of a run are stated with                         *)
(***************************************************************************)
\* node d lies below node a in the subdivision tree (by the parent indices)
RECURSIVE HasAncestor(_, _, _)
HasAncestor(nodes, d, a) ==
    LET p == nodes[d + 1].parent
    IN IF p = ROOT THEN FALSE
       ELSE IF p = a THEN TRUE
       ELSE HasAncestor(nodes, p, a)

NetworkOf(info) == FromDotted(info.subnet_id)
BroadcastOf(info) == FromDotted(info.broadcast_addr)

\* the rows of matched_subnets that carry a subnet
MatchedRows == { i \in 1..Len(matched_subnets) : matched_subnets[i].match # NONE }

MatchedInfo(i) == subnets[matched_subnets[i].match + 1].info

\* the network the caller supplied
BaseNetwork == IPv4Network(validated.ipstr, validated.masklen)

Sizable(n) == GetMaxHost(n).found
RowSizable(r) == Sizable(r.required)

\* the minimal host-bit width of a requirement n <= 2^31 - 2
MinWidth(n) == CHOOSE k \in 1..31 :
                  /\ Pow2Minus2(k) >= n
                  /\ \A j \in 1..(k - 1) : Pow2Minus2(j) < n

Count(seq, v) == Cardinality({ i \in 1..Len(seq) : seq[i] = v })

\* the whole loop of _match_subnets from the i-th pair on
RECURSIVE MatchAll(_, _, _, _, _, _)
MatchAll(nodes, matched, hs, bits, masklen, i) ==
    IF i > ZipLen(hs, bits) THEN [subnets |-> nodes, matched_subnets |-> matched]
    ELSE LET r == MatchOne(nodes, matched, hs, bits, masklen, i)
         IN MatchAll(r.subnets, r.matched_subnets, hs, bits, masklen, i + 1)

\* the result of building the tree from masklen and matching hs with bits
RunFrom(dotted, masklen, hs, bits) ==
    LET tree == FindChildren(SolveSubnet(<<>>, dotted, masklen, ROOT))
        r    == MatchAll(tree, <<>>, hs, bits, masklen, 1)
    IN GetResult(r.matched_subnets, r.subnets)

\* the result of a whole run on the requirement list reqs
RunOn(reqs) ==
    LET hs    == SortedReverse(reqs)
        sized == SizedData(hs, 1)
    IN RunFrom(validated.ipstr, PreHandleIp(validated.masklen, hs), hs,
               [i \in 1..Len(sized) |-> sized[i].host_bits])

\* C1 as stated: after _match_subnets any two distinct results that carry a
\* subnet have disjoint [network, broadcast] ranges, and neither subnet is a
\* descendant of the other
C1_MatchedDisjoint ==
    pc \in {"matched", "done"} =>
        \A i, j \in MatchedRows :
            i # j =>
                /\ \/ BroadcastOf(MatchedInfo(i)) < NetworkOf(MatchedInfo(j))
                   \/ BroadcastOf(MatchedInfo(j)) < NetworkOf(MatchedInfo(i))
                /\ ~HasAncestor(subnets, matched_subnets[i].match, matched_subnets[j].match)
                /\ ~HasAncestor(subnets, matched_subnets[j].match, matched_subnets[i].match)

\* C2 as stated: every result that pairs a requested host count n with a subnet
\* has usable_hosts >= n, and the subnet lies inside the caller's base network
C2_SufficientInsideBase ==
    pc = "done" =>
        \A i \in 1..Len(result) :
            ~result[i].nomatch =>
                /\ result[i].subnet.usable_hosts >= result[i].required
                /\ BaseNetwork.network_address <= NetworkOf(result[i].subnet)
                /\ BroadcastOf(result[i].subnet) <= BroadcastAddress(BaseNetwork)

\* C3 as stated: when a requirement of minimal width k is processed and some
\* unclaimed node has exactly 2^k - 2 usable hosts, the requirement is matched
\* to the first such node in build order (not to a larger one, not to NO MATCH)
C3_SmallestSufficientFirst ==
    [][ (pc = "match" /\ Len(matched_subnets') = Len(matched_subnets) + 1) =>
            LET k     == MinWidth(hosts[NextPair])
                cands == { idx \in 0..(Len(subnets) - 1) :
                             /\ ~subnets[idx + 1].taken
                             /\ subnets[idx + 1].info.usable_hosts = Pow2Minus2(k) }
            IN cands # {} =>
                  /\ matched_subnets'[NextPair].match \in cands
                  /\ \A c \in cands : matched_subnets'[NextPair].match <= c ]_vars

\* C4 as stated: the requested host counts of the result list are the input
\* requirements in descending order, one row per requirement
C4_OneRowPerRequirement ==
    pc = "done" =>
        /\ Len(result) = Len(hosts_required)
        /\ \A i \in 1..(Len(result) - 1) : result[i].required >= result[i + 1].required
        /\ \A i \in 1..Len(hosts_required) :
              Count([j \in 1..Len(result) |-> result[j].required], hosts_required[i])
                 = Count(hosts_required, hosts_required[i])

\* C5 as stated: for sizable requirements the result list equals the one
\* obtained when the tree is built from the caller's own prefix length
C5_PreSizingUnobservable ==
    (pc = "done" /\ \A i \in 1..Len(hosts_required) : Sizable(hosts_required[i])) =>
        result = RunFrom(validated.ipstr, validated.masklen, hosts, corresponding_host_bits)

\* C6 as stated: an unsizable requirement is paired with no subnet, and the
\* other requirements get the rows of a run without the unsizable ones
C6_UnsizableExcluded ==
    (pc = "done" /\ \E i \in 1..Len(hosts_required) : ~Sizable(hosts_required[i])) =>
        /\ \A i \in 1..Len(result) : ~Sizable(result[i].required) => result[i].nomatch
        /\ SelectSeq(result, RowSizable) = RunOn(SelectSeq(hosts_required, Sizable))

\* C9 as stated: every record _subnet_details returns to the builder has
\* first_host = network + 1, last_host = broadcast - 1, and usable_hosts =
\* 2^(32-p) - 2 for p <= 30, 0 for p = 31
C9_DetailsOfEverySubnet ==
    \A k \in 1..Len(subnets) :
        LET info == subnets[k].info
            p    == info.subnet_mask_len
        IN /\ FromDotted(info.first_host) = NetworkOf(info) + 1
           /\ FromDotted(info.last_host) = BroadcastOf(info) - 1
           /\ info.usable_hosts = IF p <= 30 THEN 2^(32 - p) - 2 ELSE 0

\* C10: a selection step sets taken on exactly the selected node and its
\* descendants and leaves every other node's flag as it was; a step without a
\* selection changes no flag; no step resets a flag
C10_ClaimFrame ==
    [][ /\ pc = "match" =>
            /\ Len(subnets') = Len(subnets)
            /\ IF /\ Len(matched_subnets') = Len(matched_subnets) + 1
                  /\ matched_subnets'[NextPair].match # NONE
               THEN LET sel == matched_subnets'[NextPair].match
                    IN \A j \in 0..(Len(subnets) - 1) :
                          subnets'[j + 1].taken =
                             (subnets[j + 1].taken \/ j = sel \/ HasAncestor(subnets, j, sel))
               ELSE \A j \in 0..(Len(subnets) - 1) :
                          subnets'[j + 1].taken = subnets[j + 1].taken
        /\ \A k \in 1..Len(subnets) :
              (k <= Len(subnets') /\ subnets[k].taken) => subnets'[k].taken ]_vars

\* a subnet with children has been selected: it and its children are taken,
\* its parent and its sibling are not
C10_Witness ==
    /\ pc = "match"
    /\ \E i \in MatchedRows :
          LET node == subnets[matched_subnets[i].match + 1]
          IN /\ node.taken
             /\ Len(node.children) = 2
             /\ \A c \in 1..2 : subnets[node.children[c] + 1].taken
             /\ node.parent # ROOT
             /\ ~subnets[node.parent + 1].taken
             /\ \E sib \in 1..Len(subnets) :
                   /\ sib # matched_subnets[i].match + 1
                   /\ subnets[sib].parent = node.parent
                   /\ ~subnets[sib].taken

\* C11: no result pairs a requirement with a /31 node: every matched subnet
\* has prefix length <= 30, in the node list and in the returned rows
C11_NoSlash31Matched ==
    /\ \A i \in MatchedRows : MatchedInfo(i).subnet_mask_len <= 30
    /\ \A i \in 1..Len(result) : ~result[i].nomatch => result[i].subnet.subnet_mask_len <= 30

\* the matcher has scanned a node list that holds unclaimed /31 nodes, has
\* matched a /30 for one requirement and found nothing for another
C11_Witness ==
    /\ pc = "done"
    /\ \E k \in 1..Len(subnets) :
          subnets[k].info.subnet_mask_len = 31 /\ ~subnets[k].taken
    /\ \E i \in MatchedRows : MatchedInfo(i).subnet_mask_len = 30
    /\ \E i \in 1..Len(matched_subnets) : matched_subnets[i].match = NONE

\* the tree has been built by _solve_subnet
TreeBuilt == pc \in {"link", "match", "matched", "done"}

\* C12 as stated: after _solve_subnet has built the tree from the starting
\* prefix length p, the node list holds at most 2^(31 - p) nodes
C12_AtMostHalfTheAddresses ==
    TreeBuilt => Len(subnets) <= 2^(31 - subnet_mask_len)

\* C12 amended: after _solve_subnet has built the tree from the starting
\* prefix length p, the node list holds at most 2^(32 - p) - 2 nodes
C12_AtMostAllProperSubnets ==
    TreeBuilt => Len(subnets) <= Pow2Minus2(32 - subnet_mask_len)

\* a tree built from a prefix length <= 29 that fills the amended bound and
\* has more than 2^(31 - p) nodes
C12_Witness ==
    /\ pc = "link"
    /\ subnet_mask_len <= 29
    /\ Len(subnets) = Pow2Minus2(32 - subnet_mask_len)
    /\ Len(subnets) > 2^(31 - subnet_mask_len)

====
